---- MODULE Spec2Model ----
(***************************************************************************)
(* Medical-Analyser: the hybrid department-recommendation engine           *)
(* (main_combined.py hybrid_predict_logic, model.py hybrid_predict), the   *)
(* rule-based safety override of the risk scorer (main_combined.py         *)
(* predict_risk_logic) and the lazy singletons of model.py                 *)
(* (load_resources) under request-parallel callers.                        *)
(*                                                                         *)
(* Units.  Percentages are integers in hundredths of a percent ("centi"),  *)
(* which is what round(x, 2) produces.  Squared distances are integers in  *)
(* units of 1/DistDen.  Classifier probabilities are integers in units of  *)
(* 1/100000 (so p * 100 is in thousandths of a percent).  Temperatures are *)
(* tenths of a degree.  Arithmetic is exact; round() is round-half-even.   *)
(***************************************************************************)
EXTENDS Integers, Sequences, FiniteSets, TLC

VARIABLES
    embedder,            \* main_combined.py: embedder is not None
    classifier,          \* classifier.pkl was loaded (both variants)
    rec_req,             \* the last recommendation request (inputs)
    rec_res,             \* what it returned
    triage_loaded,       \* main_combined.py: triage_model and triage_encoder
    risk_req,            \* the last /triage request
    risk_res,            \* what predict_risk_logic returned
    pc,                  \* model.py: each request thread's position
    m_embedder,          \* model.py: _embedder is not None
    m_faiss_index,       \* model.py: _faiss_index (None, or its ntotal)
    m_department_names,  \* model.py: _department_names is not None
    m_classifier,        \* model.py: _classifier
    load_count,          \* how often the body of load_resources was entered
    obs,                 \* what each thread read when it searched
    batch_model,         \* inference.py / test_inference.py: model is not None
    batch_aux,           \* encoder (inference.py), columns (test_inference.py)
    batch_req,           \* the last patient given to predict_risk
    batch_res,           \* what predict_risk returned
    pred_req,            \* the last POST /predict request and their number
    resp,                \* the response it got
    db_log,              \* the rows of the predictions table, oldest first
    engine_calls,        \* how often hybrid_predict_logic was called by /predict
    answers,             \* the Emergency field of every /predict response so far
    analytics_res,       \* the last GET /analytics report
    client,              \* main_combined.py: the Groq client is not None
    http_req,            \* the last /ocr or /chat request
    http_res,            \* the status and detail it was answered with
    scan_req,            \* the last query given to an index
    scan_res             \* the positions it returned and what they were mapped to

recVars  == <<embedder, classifier, rec_req, rec_res>>
riskVars == <<triage_loaded, risk_req, risk_res>>
loadVars == <<pc, m_embedder, m_faiss_index, m_department_names, m_classifier,
              load_count, obs>>
batchVars == <<batch_model, batch_aux, batch_req, batch_res>>
predVars == <<pred_req, resp, db_log, engine_calls, answers, analytics_res>>
httpVars == <<client, http_req, http_res>>
scanVars == <<scan_req, scan_res>>
vars     == <<embedder, classifier, rec_req, rec_res, triage_loaded, risk_req,
              risk_res, pc, m_embedder, m_faiss_index, m_department_names,
              m_classifier, load_count, obs, batch_model, batch_aux, batch_req,
              batch_res, pred_req, resp, db_log, engine_calls, answers,
              analytics_res, client, http_req, http_res, scan_req, scan_res>>

(***************************************************************************)
(* Bounds of the model                                                     *)
(***************************************************************************)
NumDepts == 4       \* indexed departments (the table's first NumDepts rows)
NumCases == 3       \* indexed training cases (training_data's first rows)
NumThreads == 2     \* concurrent first requests to model.py
MaxRequests == 2    \* POST /predict requests served in one behaviour

(***************************************************************************)
(* Program constants                                                       *)
(***************************************************************************)
TopK == 3           \* k of both searches, and the [:3] of both rankings
DistDen == 2        \* distance unit: one DistDen-th

DistLevels == {0, 1, 3}

department_names ==
    <<"Emergency Medicine", "General Medicine", "Cardiology", "Neurology",
      "Dermatology", "Orthopedics", "Pediatrics", "Psychiatry",
      "Gastroenterology", "Pulmonology", "Urology", "Nephrology",
      "Endocrinology", "Oncology", "ENT", "Ophthalmology", "Gynecology">>

training_data ==
    <<[Symptom |-> "Chest pain radiating to left arm", Department |-> "Cardiology"],
      [Symptom |-> "Shortness of breath and chest tightness", Department |-> "Pulmonology"],
      [Symptom |-> "Frequent urination and burning sensation", Department |-> "Urology"],
      [Symptom |-> "Skin rash with itching and redness", Department |-> "Dermatology"],
      [Symptom |-> "Severe headache and dizziness", Department |-> "Neurology"],
      [Symptom |-> "Joint pain and swelling", Department |-> "Orthopedics"],
      [Symptom |-> "Fever and persistent cough", Department |-> "General Medicine"],
      [Symptom |-> "Abdominal pain and vomiting", Department |-> "Gastroenterology"],
      [Symptom |-> "Irregular heartbeat and palpitations", Department |-> "Cardiology"],
      [Symptom |-> "Seizure episode and confusion", Department |-> "Neurology"]>>

\* classifier.classes_: the labels train_classifier.py fits on (sorted), of
\* which the model keeps four; Pulmonology is outside the indexed rows.
classes_ == <<"Cardiology", "General Medicine", "Neurology", "Pulmonology">>

\* predict_proba rows the requests draw from (each sums to 100000).
MLProbVectors ==
    { <<100000, 0, 0, 0>>,
      <<40000, 30000, 20000, 10000>>,
      <<25000, 25000, 25000, 25000>>,
      <<33335, 33335, 33330, 0>>,
      <<0, 12345, 37655, 50000>>,
      <<5000, 5000, 0, 90000>>,
      <<37500, 25000, 0, 37500>>,
      <<12344, 50000, 37656, 0>> }

(***************************************************************************)
(* Helpers                                                                 *)
(***************************************************************************)
Range(s) == { s[i] : i \in DOMAIN s }

RECURSIVE SumSeq(_)
SumSeq(s) ==
    IF s = <<>> THEN 0 ELSE Head(s) + SumSeq(Tail(s))

RECURSIVE ProdSeq(_)
ProdSeq(s) ==
    IF s = <<>> THEN 1 ELSE Head(s) * ProdSeq(Tail(s))

\* Python round(x, 2) of n/d percent-hundredths, n >= 0: half to even.
RoundHalfEven(n, d) ==
    LET q == n \div d
        r == n % d
    IN  IF 2 * r < d THEN q
        ELSE IF 2 * r > d THEN q + 1
        ELSE IF q % 2 = 0 THEN q ELSE q + 1

Prefix(s, n) ==
    IF Len(s) <= n THEN s ELSE SubSeq(s, 1, n)

\* sorted(items, key=..., reverse=True), scores[i] being the key of items[i]:
\* descending, and stable (equal keys keep their order).
SortedDescBy(items, scores) ==
    LET n == Len(items)
        rank(i) == Cardinality({ j \in 1..n : scores[j] > scores[i] })
                   + Cardinality({ j \in 1..(i - 1) : scores[j] = scores[i] })
                   + 1
    IN  [ p \in 1..n |-> items[CHOOSE i \in 1..n : rank(i) = p] ]

(***************************************************************************)
(* Nearest-neighbour search (faiss.IndexFlatL2.search)                     *)
(***************************************************************************)
\* Every result the flat L2 scan may give for k <= ntotal: k distinct
\* positions, nearest first, none nearer left out.  The order of entries at
\* exactly the same distance is the library's and is left open here.
Search(dists, k) ==
    LET n == Len(dists)
        ok(s) == /\ \A i, j \in 1..k : i # j => s[i] # s[j]
                 /\ \A i \in 1..(k - 1) : dists[s[i]] <= dists[s[i + 1]]
                 /\ \A p \in 1..n : p \notin Range(s) => dists[p] >= dists[s[k]]
    IN  { [ i \in 1..k |-> [idx |-> s[i], dist |-> dists[s[i]]] ] :
            s \in { t \in [1..k -> 1..n] : ok(t) } }

(***************************************************************************)
(* Semantic pass: 1/(1+d), normalised, in percent, rounded to 2 places     *)
(***************************************************************************)
\* semantic_scores[i] / sum, as the exact fraction Weight(i) / total:
\* 1/(1+d_i) over sum_j 1/(1+d_j)  =  prod_{j#i}(1+d_j) / sum_k prod_{j#k}(1+d_j)
SemanticWeight(hits, i) ==
    ProdSeq([ j \in 1..Len(hits) |-> IF j = i THEN 1 ELSE DistDen + hits[j].dist ])

(***************************************************************************)
(* The flat index (faiss.IndexFlatL2 as main_combined.py uses it)          *)
(***************************************************************************)
\* The flat index scans every entry and keeps the k nearest (k is at most
\* the number of entries for both tables); of entries at the same squared
\* distance the one added earlier comes first.
IndexScan(dists, k) ==
    LET n == Len(dists)
        before(p, q) == dists[p] < dists[q] \/ (dists[p] = dists[q] /\ p < q)
        rank(p) == Cardinality({ q \in 1..n : before(q, p) }) + 1
    IN  [ i \in 1..k |->
            LET p == CHOOSE p \in 1..n : rank(p) = i
            IN  [idx |-> p, dist |-> dists[p]] ]

\* semantic_results with every position mapped to the name after it
semantic_results_next_name(hits) ==
    LET total == SumSeq([ i \in 1..Len(hits) |-> SemanticWeight(hits, i) ])
    IN  [ i \in 1..Len(hits) |->
            [Department |-> department_names[hits[i].idx + 1],
             Confidence |-> RoundHalfEven(10000 * SemanticWeight(hits, i), total)] ]

semantic_results(hits) ==
    LET total == SumSeq([ i \in 1..Len(hits) |-> SemanticWeight(hits, i) ])
    IN  [ i \in 1..Len(hits) |->
            [Department |-> department_names[hits[i].idx],
             Confidence |-> RoundHalfEven(10000 * SemanticWeight(hits, i), total)] ]

(***************************************************************************)
(* Similar past cases                                                      *)
(***************************************************************************)
similar_cases(chits) ==
    LET kept == SelectSeq(chits, LAMBDA h : h.idx <= Len(training_data))
    IN  [ i \in 1..Len(kept) |->
            [Symptom |-> training_data[kept[i].idx].Symptom,
             Department |-> training_data[kept[i].idx].Department,
             Distance |-> kept[i].dist] ]

(***************************************************************************)
(* Classifier pass                                                         *)
(***************************************************************************)
\* np.argsort(ml_probs)[::-1][:3]: ascending (stable for so few classes),
\* reversed, so equal probabilities come highest class index first.
ml_indices(probs) ==
    LET n == Len(probs)
        down == [ i \in 1..n |-> n + 1 - i ]
    IN  Prefix(SortedDescBy(down, [ i \in 1..n |-> probs[down[i]] ]), TopK)

\* main_combined.py: ML Confidence (%) is rounded before it is weighted by 0.4;
\* Weighted is the 0.4 share in units of 1/10000 percent.
ml_results_combined(probs) ==
    LET ix == ml_indices(probs)
    IN  [ i \in 1..Len(ix) |->
            [Department |-> classes_[ix[i]],
             Weighted |-> RoundHalfEven(probs[ix[i]], 10) * 40] ]

\* model.py: ml_probs[idx] * 100 * 0.4, not rounded first.
ml_results_model(probs) ==
    LET ix == ml_indices(probs)
    IN  [ i \in 1..Len(ix) |->
            [Department |-> classes_[ix[i]],
             Weighted |-> probs[ix[i]] * 4] ]

(***************************************************************************)
(* Hybrid merge                                                            *)
(***************************************************************************)
SemanticWeightNum == 60     \* 0.6, in units of 1/10000 percent per hundredth

\* combined with the two weights the wrong way round
combined_weights_swapped(sem, ml) ==
    LET semDepts == { sem[i].Department : i \in 1..Len(sem) }
        share(d) == SumSeq([ j \in 1..Len(ml) |->
                        IF ml[j].Department = d THEN (ml[j].Weighted * 3) \div 2 ELSE 0 ])
        semPart == [ i \in 1..Len(sem) |->
                      [Department |-> sem[i].Department,
                       score |-> sem[i].Confidence * 40 + share(sem[i].Department)] ]
        mlOnly == SelectSeq(ml, LAMBDA m : m.Department \notin semDepts)
        mlPart == [ j \in 1..Len(mlOnly) |->
                      [Department |-> mlOnly[j].Department,
                       score |-> (mlOnly[j].Weighted * 3) \div 2] ]
    IN  semPart \o mlPart

\* The dict `combined` in insertion order: the semantic departments at 0.6 of
\* their percentage (plus the classifier's share when it names them too),
\* then the departments only the classifier named.
combined(sem, ml) ==
    LET semDepts == { sem[i].Department : i \in 1..Len(sem) }
        share(d) == SumSeq([ j \in 1..Len(ml) |->
                        IF ml[j].Department = d THEN ml[j].Weighted ELSE 0 ])
        semPart == [ i \in 1..Len(sem) |->
                      [Department |-> sem[i].Department,
                       score |-> sem[i].Confidence * SemanticWeightNum
                                 + share(sem[i].Department)] ]
        mlOnly == SelectSeq(ml, LAMBDA m : m.Department \notin semDepts)
        mlPart == [ j \in 1..Len(mlOnly) |->
                      [Department |-> mlOnly[j].Department,
                       score |-> mlOnly[j].Weighted] ]
    IN  semPart \o mlPart

\* final_results with a sort that turns equal scores round (reversing an
\* ascending sort instead of sorting with reverse=True)
final_results_ties_reversed(comb) ==
    LET n == Len(comb)
        back == [ i \in 1..n |-> comb[n + 1 - i] ]
        top == Prefix(SortedDescBy(back, [ i \in 1..n |-> back[i].score ]), TopK)
    IN  [ i \in 1..Len(top) |->
            [Department |-> top[i].Department,
             Key |-> "Final Confidence (%)",
             Confidence |-> RoundHalfEven(top[i].score, 100)] ]

\* sorted(combined.items(), key=score, reverse=True)[:3], each score rounded.
final_results(comb) ==
    LET top == Prefix(SortedDescBy(comb, [ i \in 1..Len(comb) |-> comb[i].score ]),
                      TopK)
    IN  [ i \in 1..Len(top) |->
            [Department |-> top[i].Department,
             Key |-> "Final Confidence (%)",
             Confidence |-> RoundHalfEven(top[i].score, 100)] ]

(***************************************************************************)
(* The two recommendation operations                                       *)
(***************************************************************************)
Raised == [raised |-> TRUE, System |-> "raised", Top3 |-> <<>>, Similar |-> <<>>]

SemanticOnly(sem) ==
    [ i \in 1..Len(sem) |->
        [Department |-> sem[i].Department,
         Key |-> "Semantic Confidence (%)",
         Confidence |-> sem[i].Confidence] ]

\* main_combined.py hybrid_predict_logic.  emb: embedder and dept_index were
\* built; clf: classifier is loaded; fails: predict_proba raises this time.
hybrid_predict_logic(emb, clf, hits, chits, probs, fails) ==
    IF ~emb
    THEN [raised |-> FALSE, System |-> "Error", Top3 |-> <<>>, Similar |-> <<>>]
    ELSE LET sem == semantic_results(hits)
             ml  == IF clf /\ ~fails THEN ml_results_combined(probs) ELSE <<>>
         IN  [raised |-> FALSE,
              System |-> IF clf THEN "Hybrid Semantic + ML Engine"
                                ELSE "Semantic Knowledge Engine",
              Top3 |-> final_results(combined(sem, ml)),
              Similar |-> similar_cases(chits)]

\* model.py hybrid_predict, called alone: load_resources runs to its end or
\* raises out of SentenceTransformer(...) when the embedder cannot be loaded.
hybrid_predict(emb, clf, hits, probs, fails) ==
    IF ~emb THEN Raised
    ELSE LET sem == semantic_results(hits)
         IN  IF clf
             THEN IF fails THEN Raised
                  ELSE [raised |-> FALSE,
                        System |-> "Hybrid Semantic + ML Engine",
                        Top3 |-> final_results(combined(sem, ml_results_model(probs))),
                        Similar |-> <<>>]
             ELSE [raised |-> FALSE,
                   System |-> "Semantic Knowledge Engine",
                   Top3 |-> SemanticOnly(sem),
                   Similar |-> <<>>]

(***************************************************************************)
(* Requests to the recommendation engine                                   *)
(***************************************************************************)
\* A symptom text is known to the engine by the squared distances of its
\* embedding to the indexed departments and to the indexed training cases.
Queries == [1..NumDepts -> DistLevels]

\* The training cases are taken at pairwise different distances.
CaseQueries ==
    { c \in [1..NumCases -> 1..NumCases] :
        \A i, j \in 1..NumCases : i # j => c[i] # c[j] }

NoRequest == [variant |-> "none"]
NoResult  == [raised |-> FALSE, System |-> "none", Top3 |-> <<>>, Similar |-> <<>>]

\* What the classifier does on one request: nothing to draw when it is absent.
ClassifierRuns(clf) ==
    IF clf THEN { [probs |-> p, fails |-> f] : p \in MLProbVectors, f \in {FALSE} }
                \cup { [probs |-> <<>>, fails |-> TRUE] }
           ELSE { [probs |-> <<>>, fails |-> FALSE] }

\* POST /predict past the emergency guard (main_combined.py).  The engine
\* keeps nothing between requests, so a behaviour serves one request.
HybridPredictLogic ==
    /\ rec_req = NoRequest
    /\ IF embedder
       THEN \E q \in Queries, c \in CaseQueries, run \in ClassifierRuns(classifier) :
              \E hits \in Search(q, TopK), chits \in Search(c, TopK) :
                /\ rec_req' = [variant |-> "main_combined", hits |-> hits,
                               chits |-> chits, probs |-> run.probs,
                               fails |-> run.fails]
                /\ rec_res' = hybrid_predict_logic(embedder, classifier, hits,
                                                   chits, run.probs, run.fails)
       ELSE /\ rec_req' = [variant |-> "main_combined", hits |-> <<>>,
                           chits |-> <<>>, probs |-> <<>>, fails |-> FALSE]
            /\ rec_res' = hybrid_predict_logic(embedder, classifier, <<>>, <<>>,
                                               <<>>, FALSE)
    /\ UNCHANGED <<embedder, classifier>>
    /\ UNCHANGED riskVars
    /\ UNCHANGED loadVars
    /\ UNCHANGED batchVars
    /\ UNCHANGED predVars
    /\ UNCHANGED scanVars
    /\ UNCHANGED httpVars

\* model.py hybrid_predict, one caller at a time
HybridPredict ==
    /\ rec_req = NoRequest
    /\ IF embedder
       THEN \E q \in Queries, run \in ClassifierRuns(classifier) :
              \E hits \in Search(q, TopK) :
                /\ rec_req' = [variant |-> "model", hits |-> hits, chits |-> <<>>,
                               probs |-> run.probs, fails |-> run.fails]
                /\ rec_res' = hybrid_predict(embedder, classifier, hits,
                                             run.probs, run.fails)
       ELSE /\ rec_req' = [variant |-> "model", hits |-> <<>>, chits |-> <<>>,
                           probs |-> <<>>, fails |-> FALSE]
            /\ rec_res' = hybrid_predict(embedder, classifier, <<>>, <<>>, FALSE)
    /\ UNCHANGED <<embedder, classifier>>
    /\ UNCHANGED riskVars
    /\ UNCHANGED loadVars
    /\ UNCHANGED batchVars
    /\ UNCHANGED predVars
    /\ UNCHANGED scanVars
    /\ UNCHANGED httpVars

(***************************************************************************)
(* Risk scorer: main_combined.py predict_risk_logic                        *)
(***************************************************************************)
\* A text is the sequence of its characters.
critical_keywords ==
    <<<<"c", "h", "e", "s", "t", " ", "p", "a", "i", "n">>,
      <<"c", "a", "r", "d", "i", "a", "c">>,
      <<"h", "e", "a", "r", "t", " ", "a", "t", "t", "a", "c", "k">>,
      <<"u", "n", "c", "o", "n", "s", "c", "i", "o", "u", "s">>,
      <<"d", "i", "f", "f", "i", "c", "u", "l", "t", "y", " ", "b", "r", "e", "a", "t", "h", "i", "n", "g">>,
      <<"s", "h", "o", "r", "t", "n", "e", "s", "s", " ", "o", "f", " ", "b", "r", "e", "a", "t", "h">>,
      <<"s", "e", "v", "e", "r", "e", " ", "b", "l", "e", "e", "d", "i", "n", "g">>,
      <<"s", "t", "r", "o", "k", "e">>,
      <<"p", "a", "r", "a", "l", "y", "s", "i", "s">>,
      <<"s", "u", "d", "d", "e", "n", " ", "v", "i", "s", "i", "o", "n", " ", "l", "o", "s", "s">>,
      <<"s", "e", "v", "e", "r", "e", " ", "h", "e", "a", "d", "a", "c", "h", "e">>,
      <<"h", "i", "g", "h", " ", "f", "e", "v", "e", "r">>>>

\* "Severe Headache"
TextSevereHeadacheTitle ==
    <<"S", "e", "v", "e", "r", "e", " ", "H", "e", "a", "d", "a", "c", "h", "e">>

\* "SEVERE HEADACHE"
TextSevereHeadacheUpper ==
    <<"S", "E", "V", "E", "R", "E", " ", "H", "E", "A", "D", "A", "C", "H", "E">>

\* "a severe headache, nausea"
TextSevereHeadacheLower ==
    <<"a", " ", "s", "e", "v", "e", "r", "e", " ", "h", "e", "a", "d", "a", "c", "h", "e", ",", " ", "n", "a", "u", "s", "e", "a">>

\* "mild headache, nausea"
TextMildHeadache ==
    <<"m", "i", "l", "d", " ", "h", "e", "a", "d", "a", "c", "h", "e", ",", " ", "n", "a", "u", "s", "e", "a">>

\* "fever, cough"
TextFeverCough ==
    <<"f", "e", "v", "e", "r", ",", " ", "c", "o", "u", "g", "h">>

\* "Chest Pain"
TextChestPain ==
    <<"C", "h", "e", "s", "t", " ", "P", "a", "i", "n">>

\* ""
TextEmpty ==
    <<>>

LowerCase ==
    ("A" :> "a") @@ ("B" :> "b") @@ ("C" :> "c") @@ ("D" :> "d")
    @@ ("E" :> "e") @@ ("F" :> "f") @@ ("G" :> "g") @@ ("H" :> "h")
    @@ ("I" :> "i") @@ ("J" :> "j") @@ ("K" :> "k") @@ ("L" :> "l")
    @@ ("M" :> "m") @@ ("N" :> "n") @@ ("O" :> "o") @@ ("P" :> "p")
    @@ ("Q" :> "q") @@ ("R" :> "r") @@ ("S" :> "s") @@ ("T" :> "t")
    @@ ("U" :> "u") @@ ("V" :> "v") @@ ("W" :> "w") @@ ("X" :> "x")
    @@ ("Y" :> "y") @@ ("Z" :> "z")

\* str.lower()
lower(text) ==
    [ i \in 1..Len(text) |->
        IF text[i] \in DOMAIN LowerCase THEN LowerCase[text[i]] ELSE text[i] ]

\* k in s, for a non-empty k
Contains(s, k) ==
    \E i \in 1..(Len(s) - Len(k) + 1) : SubSeq(s, i, i + Len(k) - 1) = k

\* An Optional[...] field of TriageRequest: <<>> is None, <<v>> is v.
\* Python truth of the field: neither None nor 0.
Truthy(x) == x # <<>> /\ x[1] # 0

\* check_emergency: sim is the greatest dot product of the text's embedding
\* with the emergency sentences' embeddings, in hundredths.
check_emergency(emb, sim) ==
    emb /\ sim > 60

\* is_critical_vitals with the heart-rate test missing its upper limit
is_critical_vitals_no_tachycardia(data) ==
    \/ Truthy(data.Heart_Rate) /\ data.Heart_Rate[1] < 40
    \/ Truthy(data.Systolic_BP)
         /\ (data.Systolic_BP[1] > 180 \/ data.Systolic_BP[1] < 90)
    \/ Truthy(data.Temperature) /\ data.Temperature[1] > 395

is_critical_vitals(data) ==
    \/ Truthy(data.Heart_Rate)
         /\ (data.Heart_Rate[1] > 120 \/ data.Heart_Rate[1] < 40)
    \/ Truthy(data.Systolic_BP)
         /\ (data.Systolic_BP[1] > 180 \/ data.Systolic_BP[1] < 90)
    \/ Truthy(data.Temperature) /\ data.Temperature[1] > 395

\* is_critical_symptoms matching the text as typed, without .lower()
is_critical_symptoms_case_sensitive(data) ==
    \E n \in 1..Len(critical_keywords) :
        Contains(data.Symptoms, critical_keywords[n])

is_critical_symptoms(data) ==
    \E n \in 1..Len(critical_keywords) :
        Contains(lower(data.Symptoms), critical_keywords[n])

\* The try block: the arithmetic on a None field, the encoder on a category
\* it was not fitted on, or the model on a missing value raise, and the
\* handler answers "Error"; otherwise it answers the model's label.
model_verdict(data, env) ==
    IF \/ data.Systolic_BP = <<>>
       \/ data.Heart_Rate = <<>>
       \/ data.Temperature = <<>>
       \/ env.enc_raises
    THEN "Error"
    ELSE env.prediction

\* predict_risk_logic asking the model first and the override only when
\* there is no model
predict_risk_logic_model_first(data, env, emb, loaded) ==
    IF loaded THEN model_verdict(data, env)
    ELSE IF \/ is_critical_vitals(data)
            \/ is_critical_symptoms(data)
            \/ check_emergency(emb, env.sim)
    THEN "High Risk"
    ELSE "Model not loaded"

predict_risk_logic(data, env, emb, loaded) ==
    IF \/ is_critical_vitals(data)
       \/ is_critical_symptoms(data)
       \/ check_emergency(emb, env.sim)
    THEN "High Risk"
    ELSE IF ~loaded THEN "Model not loaded"
    ELSE model_verdict(data, env)

\* The labels the triage model was fitted on (Risk_Level of the data set).
RiskLabels == {"Low", "Medium", "High"}

SymptomTexts ==
    { TextSevereHeadacheTitle, TextSevereHeadacheUpper, TextSevereHeadacheLower,
      TextMildHeadache, TextFeverCough, TextChestPain, TextEmpty }

TriageRequests ==
    [ Age : {30, 70},
      Systolic_BP : { <<>>, <<0>>, <<85>>, <<120>>, <<150>>, <<185>> },
      Diastolic_BP : {80},
      Heart_Rate : { <<>>, <<0>>, <<35>>, <<72>>, <<105>>, <<150>> },
      Temperature : { <<>>, <<370>>, <<382>>, <<396>> },
      Symptoms : SymptomTexts ]

\* What the surroundings do on one request: the similarity the embedder
\* finds, and what the encoder and the model do if they are reached.
TriageRuns(emb, loaded) ==
    [ sim : IF emb THEN {50, 61} ELSE {0},
      enc_raises : IF loaded THEN BOOLEAN ELSE {FALSE},
      prediction : IF loaded THEN RiskLabels ELSE {"none"} ]

\* POST /triage: triage_endpoint returns predict_risk_logic's value as it is.
TriageEndpoint ==
    /\ risk_req.kind = "none"
    /\ \E data \in TriageRequests, env \in TriageRuns(embedder, triage_loaded) :
         /\ risk_req' = [data |-> data, env |-> env, kind |-> "triage"]
         /\ risk_res' = predict_risk_logic(data, env, embedder, triage_loaded)
    /\ UNCHANGED <<triage_loaded>>
    /\ UNCHANGED recVars
    /\ UNCHANGED loadVars
    /\ UNCHANGED batchVars
    /\ UNCHANGED predVars
    /\ UNCHANGED scanVars
    /\ UNCHANGED httpVars

(***************************************************************************)
(* model.py: the lazy singletons under request-parallel callers            *)
(***************************************************************************)
Threads == 1..NumThreads

\* m_faiss_index: -1 is None; n >= 0 is an index object that holds the
\* department table n times over (0: created, nothing added yet).
NotSearched ==
    [searched |-> FALSE, fast |-> FALSE, index |-> -1, names |-> FALSE,
     padded |-> 0, results |-> 0]

\* faiss search: an index holding fewer than k vectors still answers with k
\* labels and distances, the missing ones being label -1 at the largest
\* float
Padding(ntotal, k) == IF k > ntotal THEN k - ntotal ELSE 0

Goto(t, label) == pc' = [pc EXCEPT ![t] = label]

\* What no step of model.py touches.
LoadFrame ==
    /\ UNCHANGED <<embedder, classifier, rec_req, rec_res>>
    /\ UNCHANGED <<triage_loaded, risk_req, risk_res>>
    /\ UNCHANGED batchVars
    /\ UNCHANGED predVars
    /\ UNCHANGED scanVars
    /\ UNCHANGED httpVars

\* hybrid_predict is entered and calls load_resources (lines 68-69)
Call(t) ==
    /\ pc[t] = "idle"
    /\ LoadFrame
    /\ Goto(t, "check")
    /\ UNCHANGED <<m_embedder, m_faiss_index, m_department_names, m_classifier,
                   load_count, obs>>

\* if _embedder is not None: return (lines 22-23); else the body is entered
CheckLoaded(t) ==
    /\ pc[t] = "check"
    /\ LoadFrame
    /\ IF m_embedder
       THEN /\ Goto(t, "encode")
            /\ obs' = [obs EXCEPT ![t].fast = TRUE]
            /\ UNCHANGED load_count
       ELSE /\ Goto(t, "names")
            /\ load_count' = load_count + 1
            /\ UNCHANGED obs
    /\ UNCHANGED <<m_embedder, m_faiss_index, m_department_names, m_classifier>>

\* _department_names = list(department_knowledge.keys()) (lines 26-47)
SetNames(t) ==
    /\ pc[t] = "names"
    /\ LoadFrame
    /\ m_department_names' = TRUE
    /\ Goto(t, "embedder")
    /\ UNCHANGED <<m_embedder, m_faiss_index, m_classifier, load_count, obs>>

\* _embedder = SentenceTransformer(...) (lines 50-53); raises when the
\* model cannot be loaded, and the exception leaves hybrid_predict
LoadEmbedder(t) ==
    /\ pc[t] = "embedder"
    /\ LoadFrame
    /\ IF embedder
       THEN m_embedder' = TRUE /\ Goto(t, "encode_kb")
       ELSE UNCHANGED m_embedder /\ Goto(t, "raised")
    /\ UNCHANGED <<m_faiss_index, m_department_names, m_classifier, load_count, obs>>

\* embeddings = _embedder.encode(knowledge_texts) (lines 55-56)
EncodeKnowledge(t) ==
    /\ pc[t] = "encode_kb"
    /\ LoadFrame
    /\ Goto(t, "new_index")
    /\ UNCHANGED <<m_embedder, m_faiss_index, m_department_names, m_classifier,
                   load_count, obs>>

\* _faiss_index = faiss.IndexFlatL2(dim) (line 58)
NewIndex(t) ==
    /\ pc[t] = "new_index"
    /\ LoadFrame
    /\ m_faiss_index' = 0
    /\ Goto(t, "add")
    /\ UNCHANGED <<m_embedder, m_department_names, m_classifier, load_count, obs>>

\* _faiss_index.add(embeddings) (line 59): adds to the object the global
\* names now
AddEmbeddings(t) ==
    /\ pc[t] = "add"
    /\ LoadFrame
    /\ m_faiss_index' = m_faiss_index + 1
    /\ Goto(t, "classifier")
    /\ UNCHANGED <<m_embedder, m_department_names, m_classifier, load_count, obs>>

\* the optional classifier (lines 62-65); load_resources returns
LoadClassifier(t) ==
    /\ pc[t] = "classifier"
    /\ LoadFrame
    /\ m_classifier' = IF classifier THEN "loaded" ELSE "None"
    /\ Goto(t, "encode")
    /\ UNCHANGED <<m_embedder, m_faiss_index, m_department_names, load_count, obs>>

\* user_embedding = _embedder.encode([symptoms]) (line 71)
EncodeQuery(t) ==
    /\ pc[t] = "encode"
    /\ LoadFrame
    /\ Goto(t, IF m_embedder THEN "search" ELSE "raised")
    /\ UNCHANGED <<m_embedder, m_faiss_index, m_department_names, m_classifier,
                   load_count, obs>>

\* _faiss_index.search(...) and the loop over _department_names (lines
\* 73-82): None has no search, so the call raises; otherwise the request
\* goes on with what it read.  The loop appends one result for each of the
\* k labels, a padded one (-1) being the last name of the list.
SearchIndex(t) ==
    /\ pc[t] = "search"
    /\ LoadFrame
    /\ obs' = [obs EXCEPT ![t].searched = TRUE,
                          ![t].index = m_faiss_index,
                          ![t].names = m_department_names,
                          ![t].padded =
                              IF m_faiss_index = -1 THEN 0
                              ELSE Padding(m_faiss_index * NumDepts, TopK),
                          ![t].results =
                              IF m_faiss_index = -1 \/ ~m_department_names THEN 0
                              ELSE TopK]
    /\ Goto(t, IF m_faiss_index = -1 THEN "raised" ELSE "rank")
    /\ UNCHANGED <<m_embedder, m_faiss_index, m_department_names, m_classifier,
                   load_count>>

\* the rest of hybrid_predict (lines 84-109)
Rank(t) ==
    /\ pc[t] = "rank"
    /\ LoadFrame
    /\ Goto(t, "done")
    /\ UNCHANGED <<m_embedder, m_faiss_index, m_department_names, m_classifier,
                   load_count, obs>>

(***************************************************************************)
(* The batch scorer (inference.py, test_inference.py)                      *)
(***************************************************************************)
\* Risk_Level values of the training CSV
BatchLabels == {"Low", "Medium", "High"}

\* test_inference.py sample_patient (Temperature in tenths)
sample_patient ==
    [Age |-> 75, Systolic_BP |-> 120, Diastolic_BP |-> 80, Heart_Rate |-> 145,
     Temperature |-> 370, Symptoms |-> "Chest pain"]

Patients ==
    [Age : {75},
     Systolic_BP : {120, 135, 145},
     Diastolic_BP : {80, 88, 95},
     Heart_Rate : {72, 140, 141, 145},
     Temperature : {370, 376, 381, 1030, 1031},
     Symptoms : {"Chest pain"}]

\* assign_risk_rule without the heart-rate test (the rule that labelled the
\* training CSV)
assign_risk_rule_no_heart_rate(patient) ==
    IF \/ patient.Systolic_BP > 140
       \/ patient.Diastolic_BP > 90
       \/ patient.Temperature > 380
    THEN "High"
    ELSE IF \/ patient.Systolic_BP > 130
            \/ patient.Diastolic_BP > 85
            \/ patient.Temperature > 375
         THEN "Medium"
         ELSE "Low"

assign_risk_rule(patient) ==
    IF \/ patient.Systolic_BP > 140
       \/ patient.Diastolic_BP > 90
       \/ patient.Temperature > 380
       \/ patient.Heart_Rate > 140
    THEN "High"
    ELSE IF \/ patient.Systolic_BP > 130
            \/ patient.Diastolic_BP > 85
            \/ patient.Temperature > 375
         THEN "Medium"
         ELSE "Low"

\* predict_risk with the model asked before the extreme vitals are looked at
predict_risk_model_first(patient, model, encoder, env) ==
    IF ~model \/ ~encoder
    THEN [raised |-> FALSE, level |-> assign_risk_rule(patient), consulted |-> FALSE]
    ELSE IF env.raises
         THEN [raised |-> TRUE, level |-> "none", consulted |-> TRUE]
         ELSE [raised |-> FALSE, level |-> env.prediction, consulted |-> TRUE]

\* inference.py predict_risk.  env: what encoder.transform and model.predict
\* do with this patient; consulted: whether they were called.
predict_risk(patient, model, encoder, env) ==
    IF patient.Temperature > 1030 \/ patient.Heart_Rate > 140
    THEN [raised |-> FALSE, level |-> "High", consulted |-> FALSE]
    ELSE IF ~model \/ ~encoder
         THEN [raised |-> FALSE, level |-> assign_risk_rule(patient),
               consulted |-> FALSE]
         ELSE IF env.raises
              THEN [raised |-> TRUE, level |-> "none", consulted |-> TRUE]
              ELSE [raised |-> FALSE, level |-> env.prediction, consulted |-> TRUE]

\* test_inference.py predict_risk: the same steps with `columns` for `encoder`
test_predict_risk(patient_dict, model, columns, env) ==
    IF patient_dict.Temperature > 1030 \/ patient_dict.Heart_Rate > 140
    THEN [raised |-> FALSE, level |-> "High", consulted |-> FALSE]
    ELSE IF ~model \/ ~columns
         THEN [raised |-> FALSE, level |-> assign_risk_rule(patient_dict),
               consulted |-> FALSE]
         ELSE IF env.raises
              THEN [raised |-> TRUE, level |-> "none", consulted |-> TRUE]
              ELSE [raised |-> FALSE, level |-> env.prediction, consulted |-> TRUE]

\* What the trained model would do with one patient
BatchRuns(model, aux) ==
    IF model /\ aux
    THEN [prediction : BatchLabels, raises : BOOLEAN]
    ELSE { [prediction |-> "Low", raises |-> FALSE] }

\* inference.py: one row of the batch
InferencePredictRisk ==
    /\ batch_req = NoRequest
    /\ \E patient \in Patients, env \in BatchRuns(batch_model, batch_aux) :
         /\ batch_req' = [variant |-> "inference", patient |-> patient, env |-> env]
         /\ batch_res' = predict_risk(patient, batch_model, batch_aux, env)
    /\ UNCHANGED <<batch_model, batch_aux>>
    /\ UNCHANGED <<recVars, riskVars, loadVars, predVars, scanVars, httpVars>>

\* test_inference.py: the sample patient or one row of the batch
TestInferencePredictRisk ==
    /\ batch_req = NoRequest
    /\ \E patient \in Patients, env \in BatchRuns(batch_model, batch_aux) :
         /\ batch_req' = [variant |-> "test_inference", patient |-> patient,
                          env |-> env]
         /\ batch_res' = test_predict_risk(patient, batch_model, batch_aux, env)
    /\ UNCHANGED <<batch_model, batch_aux>>
    /\ UNCHANGED <<recVars, riskVars, loadVars, predVars, scanVars, httpVars>>

\* Symptom texts of the batch: "Nausea", "Shortness of Breath",
\* "Chest Pain,Headache", "Fever,Dizziness", "HEART racing, cough"
TextNausea ==
    <<"N", "a", "u", "s", "e", "a">>

TextShortnessOfBreath ==
    <<"S", "h", "o", "r", "t", "n", "e", "s", "s", " ", "o", "f", " ", "B", "r", "e", "a", "t", "h">>

TextChestPainHeadache ==
    <<"C", "h", "e", "s", "t", " ", "P", "a", "i", "n", ",", "H", "e", "a", "d", "a", "c", "h", "e">>

TextFeverDizziness ==
    <<"F", "e", "v", "e", "r", ",", "D", "i", "z", "z", "i", "n", "e", "s", "s">>

TextHeartCough ==
    <<"H", "E", "A", "R", "T", " ", "r", "a", "c", "i", "n", "g", ",", " ", "c", "o", "u", "g", "h">>

BatchTexts ==
    { TextNausea, TextShortnessOfBreath, TextChestPainHeadache,
      TextFeverDizziness, TextHeartCough, TextChestPain, TextMildHeadache,
      TextFeverCough, TextSevereHeadacheUpper, TextEmpty }

KwChest == <<"c", "h", "e", "s", "t">>
KwHeart == <<"h", "e", "a", "r", "t">>
KwHeadache == <<"h", "e", "a", "d", "a", "c", "h", "e">>
KwDizziness == <<"d", "i", "z", "z", "i", "n", "e", "s", "s">>
KwFever == <<"f", "e", "v", "e", "r">>
KwCough == <<"c", "o", "u", "g", "h">>

\* assign_department looking for the keywords in the text as it was typed
assign_department_case_sensitive(symptoms) ==
    LET s == symptoms
    IN  IF Contains(s, KwChest) \/ Contains(s, KwHeart)
        THEN {"Cardiology"}
        ELSE IF Contains(s, KwHeadache) \/ Contains(s, KwDizziness)
             THEN {"Neurology"}
             ELSE IF Contains(s, KwFever) \/ Contains(s, KwCough)
                  THEN {"General Medicine"}
                  ELSE {"General Medicine", "Emergency", "Neurology"}

\* inference.py assign_department: the departments it can return (one by
\* rule, or any of random.choice's list)
assign_department(symptoms) ==
    LET s == lower(symptoms)
    IN  IF Contains(s, KwChest) \/ Contains(s, KwHeart)
        THEN {"Cardiology"}
        ELSE IF Contains(s, KwHeadache) \/ Contains(s, KwDizziness)
             THEN {"Neurology"}
             ELSE IF Contains(s, KwFever) \/ Contains(s, KwCough)
                  THEN {"General Medicine"}
                  ELSE {"General Medicine", "Emergency", "Neurology"}

\* test_inference.py assign_department
test_assign_department(symptoms) ==
    LET s == lower(symptoms)
    IN  IF Contains(s, KwChest) \/ Contains(s, KwHeart)
        THEN {"Cardiology"}
        ELSE IF Contains(s, KwHeadache) \/ Contains(s, KwDizziness)
             THEN {"Neurology"}
             ELSE IF Contains(s, KwFever) \/ Contains(s, KwCough)
                  THEN {"General Medicine"}
                  ELSE {"General Medicine", "Emergency", "Neurology"}

\* generate_synthetic_patients_large.py: the Department column of a row
departments == {"General Medicine", "Cardiology", "Neurology", "Emergency"}

department_label(symptoms) ==
    LET s_lower == lower(symptoms)
    IN  IF Contains(s_lower, KwChest) \/ Contains(s_lower, KwHeart)
        THEN {"Cardiology"}
        ELSE IF Contains(s_lower, KwHeadache) \/ Contains(s_lower, KwDizziness)
             THEN {"Neurology"}
             ELSE IF Contains(s_lower, KwFever) \/ Contains(s_lower, KwCough)
                  THEN {"General Medicine"}
                  ELSE departments

\* Texts the generator can produce: symptoms_list items joined by ","
GeneratedTexts ==
    { TextNausea, TextShortnessOfBreath, TextChestPainHeadache,
      TextFeverDizziness }

\* inference.py: the Predicted_Department of one row
InferenceAssignDepartment ==
    /\ batch_req = NoRequest
    /\ \E text \in BatchTexts : \E dept \in assign_department(text) :
         /\ batch_req' = [variant |-> "inference.assign_department",
                          symptoms |-> text]
         /\ batch_res' = [department |-> dept]
    /\ UNCHANGED <<batch_model, batch_aux>>
    /\ UNCHANGED <<recVars, riskVars, loadVars, predVars, scanVars, httpVars>>

\* test_inference.py: the Predicted_Department of one row
TestAssignDepartment ==
    /\ batch_req = NoRequest
    /\ \E text \in BatchTexts : \E dept \in test_assign_department(text) :
         /\ batch_req' = [variant |-> "test_inference.assign_department",
                          symptoms |-> text]
         /\ batch_res' = [department |-> dept]
    /\ UNCHANGED <<batch_model, batch_aux>>
    /\ UNCHANGED <<recVars, riskVars, loadVars, predVars, scanVars, httpVars>>

\* generate_synthetic_patients_large.py: the Department of one generated row
GenerateDepartment ==
    /\ batch_req = NoRequest
    /\ \E text \in GeneratedTexts : \E dept \in department_label(text) :
         /\ batch_req' = [variant |-> "generate.department", symptoms |-> text]
         /\ batch_res' = [department |-> dept]
    /\ UNCHANGED <<batch_model, batch_aux>>
    /\ UNCHANGED <<recVars, riskVars, loadVars, predVars, scanVars, httpVars>>

(***************************************************************************)
(* POST /predict (main_combined.py)                                        *)
(***************************************************************************)
\* Texts sent to /predict
PredictTexts == {TextEmpty, TextFeverCough, TextChestPain}

\* The embedder gives every text, the empty one included, a vector; a text
\* is known by that vector's squared distances to the indexed departments.
\* The texts of PredictTexts are placed at pairwise different distances.
PredictQuery(text) == [ d \in 1..NumDepts |-> (d + Len(text)) % NumDepts ]

PredictCaseQuery == [ i \in 1..NumCases |-> i ]

PredictProbVectors == { <<40000, 30000, 20000, 10000>> }

\* What one request meets: the similarity of the text to the emergency
\* sentences (hundredths), both searches, the classifier, the database.
PredictRuns(text, emb, clf) ==
    { [sim |-> sim, hits |-> hits, chits |-> chits, probs |-> run.probs,
       fails |-> run.fails, db |-> db] :
        sim \in IF emb THEN {50, 61} ELSE {0},
        hits \in IF emb THEN Search(PredictQuery(text), TopK) ELSE {<<>>},
        chits \in IF emb THEN Search(PredictCaseQuery, TopK) ELSE {<<>>},
        run \in { r \in ClassifierRuns(clf) :
                    r.fails \/ ~clf \/ r.probs \in PredictProbVectors },
        db \in {"ok", "fail_open", "fail_commit"} }

\* while len(top3) < 3: top3.append({"Department": "None", ...})
Pad(top3) ==
    top3 \o [ i \in 1..(TopK - Len(top3)) |->
                [Department |-> "None", Key |-> "Final Confidence (%)",
                 Confidence |-> 0] ]

PredictionLog(symptoms, top3, emergency) ==
    [symptoms |-> symptoms,
     department_1 |-> top3[1].Department, confidence_1 |-> top3[1].Confidence,
     department_2 |-> top3[2].Department, confidence_2 |-> top3[2].Confidence,
     department_3 |-> top3[3].Department, confidence_3 |-> top3[3].Confidence,
     emergency |-> emergency]

\* predict with the engine run and the row written before the guard is asked
predict_guard_last(data, emb, clf, env) ==
    LET result == hybrid_predict_logic(emb, clf, env.hits, env.chits, env.probs,
                                       env.fails)
        top3 == IF env.db = "fail_open" THEN result.Top3 ELSE Pad(result.Top3)
        emergency == check_emergency(emb, env.sim)
    IN  [response |-> IF emergency
                      THEN [Emergency |-> TRUE, System |-> "Emergency Guard",
                            Top3 |-> <<>>, Similar |-> <<>>]
                      ELSE [Emergency |-> FALSE, System |-> result.System,
                            Top3 |-> top3, Similar |-> result.Similar],
         rows |-> IF env.db = "ok"
                  THEN << PredictionLog(data.symptoms, top3, emergency) >>
                  ELSE <<>>,
         engine |-> 1]

\* The handler of POST /predict.  `top3` is the list inside `result`, so what
\* the padding appends is in the response too.  response: the JSON returned;
\* rows: what was committed to the predictions table; engine: the calls of
\* hybrid_predict_logic.
predict(data, emb, clf, env) ==
    IF check_emergency(emb, env.sim)
    THEN [response |-> [Emergency |-> TRUE, System |-> "Emergency Guard",
                        Top3 |-> <<>>, Similar |-> <<>>],
          rows |-> <<>>,
          engine |-> 0]
    ELSE LET result == hybrid_predict_logic(emb, clf, env.hits, env.chits,
                                            env.probs, env.fails)
             top3 == IF env.db = "fail_open" THEN result.Top3
                                             ELSE Pad(result.Top3)
         IN  [response |-> [Emergency |-> FALSE, System |-> result.System,
                            Top3 |-> top3, Similar |-> result.Similar],
              rows |-> IF env.db = "ok"
                       THEN << PredictionLog(data.symptoms, top3, FALSE) >>
                       ELSE <<>>,
              engine |-> 1]

NoResponse == [Emergency |-> FALSE, System |-> "none", Top3 |-> <<>>, Similar |-> <<>>]

Predict ==
    /\ pred_req.n < MaxRequests
    /\ \E text \in PredictTexts :
         \E env \in PredictRuns(text, embedder, classifier) :
           LET data == [symptoms |-> text]
               out == predict(data, embedder, classifier, env)
           IN  /\ pred_req' = [n |-> pred_req.n + 1, data |-> data, env |-> env]
               /\ resp' = out.response
               /\ db_log' = db_log \o out.rows
               /\ engine_calls' = engine_calls + out.engine
               /\ answers' = Append(answers, out.response.Emergency)
    /\ UNCHANGED analytics_res
    /\ UNCHANGED <<embedder, classifier, rec_req, rec_res>>
    /\ UNCHANGED <<riskVars, loadVars, batchVars, scanVars, httpVars>>

\* dept_index.search(user_embedding, k=3) and the loop that names the
\* positions (lines 361-370)
SearchDepartments ==
    /\ scan_req = NoRequest
    /\ \E q \in Queries :
         LET hits == IndexScan(q, TopK)
         IN  /\ scan_req' = [variant |-> "departments", dists |-> q]
             /\ scan_res' = [ i \in 1..Len(hits) |->
                               [idx |-> hits[i].idx, dist |-> hits[i].dist,
                                name |-> semantic_results(hits)[i].Department] ]
    /\ UNCHANGED <<recVars, riskVars, loadVars, batchVars, predVars, httpVars>>

\* case_index.search(user_embedding, k=3) and the loop that looks the
\* positions up in training_data (lines 375-382)
SearchCases ==
    /\ scan_req = NoRequest
    /\ \E c \in [1..NumCases -> DistLevels] :
         LET chits == IndexScan(c, TopK)
             cases == similar_cases(chits)
         IN  /\ scan_req' = [variant |-> "cases", dists |-> c]
             /\ scan_res' = [ i \in 1..Len(cases) |->
                               [idx |-> chits[i].idx, dist |-> cases[i].Distance,
                                name |-> cases[i].Symptom] ]
    /\ UNCHANGED <<recVars, riskVars, loadVars, batchVars, predVars, httpVars>>

(***************************************************************************)
(* POST /ocr and POST /chat (main_combined.py)                             *)
(***************************************************************************)
\* "report.pdf", "SCAN.PNG", "x.jpg", "x.jpeg", "notes.txt", "pdf"
FileNames ==
    { <<"r", "e", "p", "o", "r", "t", ".", "p", "d", "f">>,
      <<"S", "C", "A", "N", ".", "P", "N", "G">>,
      <<"x", ".", "j", "p", "g">>,
      <<"x", ".", "j", "p", "e", "g">>,
      <<"n", "o", "t", "e", "s", ".", "t", "x", "t">>,
      <<"p", "d", "f">> }

ExtPdf == <<".", "p", "d", "f">>

ImageExts ==
    { <<".", "p", "n", "g">>,
      <<".", "j", "p", "g">>,
      <<".", "j", "p", "e", "g">> }

\* str.endswith
EndsWith(s, suffix) ==
    /\ Len(s) >= Len(suffix)
    /\ SubSeq(s, Len(s) - Len(suffix) + 1, Len(s)) = suffix

\* ocr_endpoint.  works: reading the file, the Groq call and json.loads all
\* succeed.  An HTTPException raised inside the try is an Exception and is
\* caught by `except Exception`.
ocr_endpoint(name, has_client, works) ==
    IF ~has_client
    THEN [status |-> 503, detail |-> "AI service unavailable"]
    ELSE LET filename == lower(name)
         IN  IF EndsWith(filename, ExtPdf)
                \/ \E ext \in ImageExts : EndsWith(filename, ext)
             THEN IF works THEN [status |-> 200, detail |-> "json"]
                           ELSE [status |-> 500, detail |-> "OCR failed"]
             ELSE [status |-> 500, detail |-> "OCR failed"]

\* ChatRequest: four optional texts, "" standing for an absent or empty one
ChatRequests ==
    [message : {"", "hello"}, prompt : {"", "hello"}, text : {"", "hello"},
     question : {"", "hello"}]

\* What the Groq call does: a reply, an empty reply, no content, an exception
ChatReplies == {"text", "", "None", "raises"}

\* chat: `except HTTPException: raise` stands before `except Exception`
chat(request, has_client, reply) ==
    IF ~has_client
    THEN [status |-> 503, detail |-> "AI service unavailable"]
    ELSE LET user_message ==
                 IF request.message # "" THEN request.message
                 ELSE IF request.prompt # "" THEN request.prompt
                 ELSE IF request.text # "" THEN request.text
                 ELSE request.question
         IN  IF user_message = ""
             THEN [status |-> 422,
                   detail |-> "Message/prompt/text/question is required"]
             ELSE IF reply = "raises"
                  THEN [status |-> 500, detail |-> "Chat service failed"]
                  ELSE IF reply = "" \/ reply = "None"
                       THEN [status |-> 502,
                             detail |-> "Empty response from AI service"]
                       ELSE [status |-> 200, detail |-> "response"]

OcrEndpoint ==
    /\ http_req = NoRequest
    /\ \E name \in FileNames, works \in BOOLEAN :
         /\ http_req' = [variant |-> "ocr", filename |-> name, works |-> works]
         /\ http_res' = ocr_endpoint(name, client, works)
    /\ UNCHANGED client
    /\ UNCHANGED <<recVars, riskVars, loadVars, batchVars, predVars, scanVars>>

Chat ==
    /\ http_req = NoRequest
    /\ \E request \in ChatRequests, reply \in ChatReplies :
         /\ http_req' = [variant |-> "chat", request |-> request, reply |-> reply]
         /\ http_res' = chat(request, client, reply)
    /\ UNCHANGED client
    /\ UNCHANGED <<recVars, riskVars, loadVars, batchVars, predVars, scanVars>>

\* Idle values of the variables a specification does not use.
RiskIdle ==
    /\ triage_loaded = FALSE
    /\ risk_req = [kind |-> "none"]
    /\ risk_res = "none"

LoadIdle ==
    /\ pc = [t \in 1..NumThreads |-> "idle"]
    /\ m_embedder = FALSE
    /\ m_faiss_index = -1
    /\ m_department_names = FALSE
    /\ m_classifier = "None"
    /\ load_count = 0
    /\ obs = [t \in 1..NumThreads |-> NotSearched]

RecIdle ==
    /\ rec_req = NoRequest
    /\ rec_res = NoResult

BatchIdle ==
    /\ batch_model = FALSE
    /\ batch_aux = FALSE
    /\ batch_req = NoRequest
    /\ batch_res = [raised |-> FALSE, level |-> "none", consulted |-> FALSE]

ScanIdle ==
    /\ scan_req = NoRequest
    /\ scan_res = <<>>

\* GET /analytics over the rows of the predictions table
analytics(rows) ==
    LET depts(row) == << row.department_1, row.department_2, row.department_3 >>
        counted == { d \in UNION { Range(depts(rows[i])) : i \in 1..Len(rows) } :
                       d # "" /\ d # "None" }
        times(d, row) == Cardinality({ j \in 1..3 : depts(row)[j] = d })
    IN  [Total_Predictions |-> Len(rows),
         Emergency_Cases |->
             Cardinality({ i \in 1..Len(rows) : rows[i].emergency = TRUE }),
         Department_Frequency |->
             [ d \in counted |->
                 SumSeq([ i \in 1..Len(rows) |-> times(d, rows[i]) ]) ]]

NoReport == [made |-> FALSE, served |-> <<>>, report |-> analytics(<<>>)]

\* served: the responses sent before the report was made
Analytics ==
    /\ analytics_res' = [made |-> TRUE, served |-> answers,
                          report |-> analytics(db_log)]
    /\ UNCHANGED <<pred_req, resp, db_log, engine_calls, answers>>
    /\ UNCHANGED <<recVars, riskVars, loadVars, batchVars, scanVars, httpVars>>

PredIdle ==
    /\ pred_req = [n |-> 0]
    /\ resp = NoResponse
    /\ db_log = <<>>
    /\ engine_calls = 0
    /\ answers = <<>>
    /\ analytics_res = NoReport

HttpIdle ==
    /\ client = FALSE
    /\ http_req = NoRequest
    /\ http_res = [status |-> 0, detail |-> "none"]

\* After import: the embedder loaded or not, classifier.pkl present or not.
Init ==
    /\ embedder \in BOOLEAN
    /\ classifier \in BOOLEAN
    /\ RecIdle
    /\ RiskIdle
    /\ LoadIdle
    /\ BatchIdle
    /\ PredIdle
    /\ ScanIdle
    /\ HttpIdle

Next ==
    \/ HybridPredictLogic
    \/ HybridPredict

Spec == Init /\ [][Next]_vars

\* The risk scorer alone: the embedder and the triage model loaded or not.
InitRisk ==
    /\ embedder \in BOOLEAN
    /\ classifier = FALSE
    /\ triage_loaded \in BOOLEAN
    /\ risk_req = [kind |-> "none"]
    /\ risk_res = "none"
    /\ RecIdle
    /\ LoadIdle
    /\ BatchIdle
    /\ PredIdle
    /\ ScanIdle
    /\ HttpIdle

NextRisk ==
    \/ TriageEndpoint

SpecRisk == InitRisk /\ [][NextRisk]_vars


\* model.py under concurrent first requests, one request per thread.
InitLoad ==
    /\ embedder \in BOOLEAN
    /\ classifier \in BOOLEAN
    /\ RecIdle
    /\ RiskIdle
    /\ LoadIdle
    /\ BatchIdle
    /\ PredIdle
    /\ ScanIdle
    /\ HttpIdle

NextLoad ==
    \/ \E t \in Threads : Call(t)
    \/ \E t \in Threads : CheckLoaded(t)
    \/ \E t \in Threads : SetNames(t)
    \/ \E t \in Threads : LoadEmbedder(t)
    \/ \E t \in Threads : EncodeKnowledge(t)
    \/ \E t \in Threads : NewIndex(t)
    \/ \E t \in Threads : AddEmbeddings(t)
    \/ \E t \in Threads : LoadClassifier(t)
    \/ \E t \in Threads : EncodeQuery(t)
    \/ \E t \in Threads : SearchIndex(t)
    \/ \E t \in Threads : Rank(t)

SpecLoad == InitLoad /\ [][NextLoad]_vars

\* The batch scorer: the model and its encoder (or columns) found or not.
InitBatch ==
    /\ batch_model \in BOOLEAN
    /\ batch_aux \in BOOLEAN
    /\ batch_req = NoRequest
    /\ batch_res = [raised |-> FALSE, level |-> "none", consulted |-> FALSE]
    /\ embedder = FALSE
    /\ classifier = FALSE
    /\ RecIdle
    /\ RiskIdle
    /\ LoadIdle
    /\ PredIdle
    /\ ScanIdle
    /\ HttpIdle

NextBatch ==
    \/ InferencePredictRisk
    \/ TestInferencePredictRisk
    \/ InferenceAssignDepartment
    \/ TestAssignDepartment
    \/ GenerateDepartment

SpecBatch == InitBatch /\ [][NextBatch]_vars

\* The two indexes of main_combined.py, searched once.
InitIndex ==
    /\ embedder = TRUE
    /\ classifier = FALSE
    /\ RecIdle
    /\ RiskIdle
    /\ LoadIdle
    /\ BatchIdle
    /\ PredIdle
    /\ ScanIdle
    /\ HttpIdle

NextIndex ==
    \/ SearchDepartments
    \/ SearchCases

SpecIndex == InitIndex /\ [][NextIndex]_vars

\* /ocr and /chat: the Groq client initialised or not, one request.
InitHttp ==
    /\ client \in BOOLEAN
    /\ http_req = NoRequest
    /\ http_res = [status |-> 0, detail |-> "none"]
    /\ embedder = FALSE
    /\ classifier = FALSE
    /\ RecIdle
    /\ RiskIdle
    /\ LoadIdle
    /\ BatchIdle
    /\ PredIdle
    /\ ScanIdle

NextHttp ==
    \/ OcrEndpoint
    \/ Chat

SpecHttp == InitHttp /\ [][NextHttp]_vars

\* POST /predict, up to MaxRequests requests against an empty table.
InitPredict ==
    /\ embedder \in BOOLEAN
    /\ classifier \in BOOLEAN
    /\ RecIdle
    /\ RiskIdle
    /\ LoadIdle
    /\ BatchIdle
    /\ PredIdle
    /\ ScanIdle
    /\ HttpIdle

NextPredict ==
    \/ Predict
    \/ Analytics

SpecPredict == InitPredict /\ [][NextPredict]_vars

(***************************************************************************)
(* Claims about the recommendation engine (checked under Spec)             *)
(***************************************************************************)
Served == rec_req.variant # "none"

Confidences == [ i \in 1..Len(rec_res.Top3) |-> rec_res.Top3[i].Confidence ]

\* C1: for every symptom text and every classifier state (absent, present,
\* present but failing) both recommendation operations return a list of at
\* most 3 entries, every confidence in [0,100], ordered by non-increasing
\* confidence.
C1_AtMostThreeInRangeSorted ==
    (Served /\ embedder) =>
        /\ ~rec_res.raised
        /\ Len(rec_res.Top3) <= 3
        /\ \A i \in 1..Len(rec_res.Top3) :
             Confidences[i] >= 0 /\ Confidences[i] <= 10000
        /\ \A i \in 1..(Len(rec_res.Top3) - 1) :
             Confidences[i] >= Confidences[i + 1]

\* C2: in semantic-only mode (no classifier loaded, or no classifier scores
\* mixed in) the confidences of the returned top 3 sum to 100, within the
\* rounding of three values to two places.
C2_SemanticOnlySumsTo100 ==
    (Served /\ embedder /\ ~rec_res.raised /\ (~classifier \/ rec_req.fails)) =>
        /\ SumSeq(Confidences) >= 10000 - 2
        /\ SumSeq(Confidences) <= 10000 + 2

\* C8: when the embedder (or the department index) failed to initialise, both
\* recommendation operations return an explicit error marker with an empty
\* recommendation list and do not raise.
C8_UnavailableIsMarkedNotRaised ==
    (Served /\ ~embedder) =>
        /\ ~rec_res.raised
        /\ rec_res.System = "Error"
        /\ rec_res.Top3 = <<>>

\* What the claims about fusion speak of, restated from the request alone.
Returned == Served /\ embedder /\ ~rec_res.raised

MLMixed == classifier /\ ~rec_req.fails

SemOfRequest == semantic_results(rec_req.hits)

SemDepts == { SemOfRequest[i].Department : i \in 1..Len(SemOfRequest) }

\* semantic_percent of a department, in hundredths (0 outside the top 3)
SemPercent(d) ==
    SumSeq([ i \in 1..Len(SemOfRequest) |->
               IF SemOfRequest[i].Department = d THEN SemOfRequest[i].Confidence ELSE 0 ])

TopClasses == IF MLMixed THEN ml_indices(rec_req.probs) ELSE <<>>

MLDepts == { classes_[TopClasses[i]] : i \in 1..Len(TopClasses) }

\* classifier_percent of a department, in thousandths (0 outside the top 3):
\* probability * 100, which main_combined.py rounds to two places
MLPercent(d) ==
    SumSeq([ i \in 1..Len(TopClasses) |->
               IF classes_[TopClasses[i]] = d
               THEN IF rec_req.variant = "main_combined"
                    THEN RoundHalfEven(rec_req.probs[TopClasses[i]], 10) * 10
                    ELSE rec_req.probs[TopClasses[i]]
               ELSE 0 ])

\* 0.6 * semantic_percent + 0.4 * classifier_percent, in 1/10000 percent
FusedScore(d) == 60 * SemPercent(d) + 4 * MLPercent(d)

ReturnedDepts == { rec_res.Top3[i].Department : i \in 1..Len(rec_res.Top3) }

\* C11: with classifier scores available, every department of the union of
\* the semantic top 3 and the classifier top 3 scores 0.6 * semantic_percent
\* + 0.4 * classifier_percent (a missing source adds nothing and nothing is
\* renormalised), and the result is that union in descending order of the
\* score, cut to 3.
C11_FusionFormula ==
    (Returned /\ MLMixed) =>
        LET top == rec_res.Top3
            all == SemDepts \cup MLDepts
        IN  /\ Len(top) = IF Cardinality(all) < 3 THEN Cardinality(all) ELSE 3
            /\ Cardinality(ReturnedDepts) = Len(top)
            /\ ReturnedDepts \subseteq all
            /\ \A i \in 1..Len(top) :
                 top[i].Confidence = RoundHalfEven(FusedScore(top[i].Department), 100)
            /\ \A i \in 1..(Len(top) - 1) :
                 FusedScore(top[i].Department) >= FusedScore(top[i + 1].Department)
            /\ \A d \in all \ ReturnedDepts :
                 FusedScore(d) <= FusedScore(top[Len(top)].Department)

\* a department only the classifier named is returned, above a semantic one
C11_Witness ==
    /\ Returned
    /\ MLMixed
    /\ Len(rec_res.Top3) = 3
    /\ rec_res.Top3[1].Department \in MLDepts \ SemDepts
    /\ rec_res.Top3[2].Department \in SemDepts \cap MLDepts
    /\ rec_res.Top3[3].Department \in SemDepts \ MLDepts

\* C12: when the classifier is loaded but predict_proba fails, the request
\* does not fail and returns the semantic top 3 with their semantic
\* percentages.
C12_FailingClassifierDegradesToSemantic ==
    (Served /\ embedder /\ classifier /\ rec_req.fails) =>
        /\ ~rec_res.raised
        /\ Len(rec_res.Top3) = Len(SemOfRequest)
        /\ \A i \in 1..Len(rec_res.Top3) :
             /\ rec_res.Top3[i].Department = SemOfRequest[i].Department
             /\ rec_res.Top3[i].Confidence = SemOfRequest[i].Confidence

\* The order in which the departments are first met: the semantic top 3 in
\* search order, then the classifier's that are not among them, in the
\* classifier's order.
Encounter ==
    [ i \in 1..Len(SemOfRequest) |-> SemOfRequest[i].Department ]
    \o SelectSeq([ i \in 1..Len(TopClasses) |-> classes_[TopClasses[i]] ],
                 LAMBDA d : d \notin SemDepts)

EncounterPos(d) == CHOOSE i \in 1..Len(Encounter) : Encounter[i] = d

\* C18: departments of equal combined score keep the order in which they
\* were first met, in the ranking and at the cut to 3.
C18_EqualScoresKeepEncounterOrder ==
    Returned =>
        LET top == rec_res.Top3
        IN  /\ \A i, j \in 1..Len(top) :
                 (i < j /\ FusedScore(top[i].Department) = FusedScore(top[j].Department))
                     => EncounterPos(top[i].Department) < EncounterPos(top[j].Department)
            /\ \A d \in Range(Encounter) \ ReturnedDepts : \A i \in 1..Len(top) :
                 FusedScore(d) = FusedScore(top[i].Department)
                     => EncounterPos(top[i].Department) < EncounterPos(d)

\* third place is tied between a semantic department and one only the
\* classifier named: the semantic one, met first, is kept
C18_Witness ==
    /\ Returned
    /\ MLMixed
    /\ Len(rec_res.Top3) = 3
    /\ rec_res.Top3[3].Department \in SemDepts
    /\ \E d \in MLDepts \ (SemDepts \cup ReturnedDepts) :
         FusedScore(d) = FusedScore(rec_res.Top3[3].Department)
    /\ FusedScore(rec_res.Top3[1].Department) = FusedScore(rec_res.Top3[2].Department) + 50000

\* C19: hybrid_predict_logic labels a result as the hybrid engine exactly
\* when classifier scores were mixed into it, and as the semantic engine
\* exactly when its scores come from the semantic search alone.
C19_LabelNamesThePathway ==
    (Returned /\ rec_req.variant = "main_combined") =>
        /\ (rec_res.System = "Hybrid Semantic + ML Engine") <=> MLMixed
        /\ (rec_res.System = "Semantic Knowledge Engine") <=> ~MLMixed

\* C23: in hybrid mode the two variants agree: for the same search result
\* and the same classifier probabilities hybrid_predict (model.py) and
\* hybrid_predict_logic (main_combined.py) return the same departments in
\* the same order with the same final confidences.
C23_VariantsAgreeInHybridMode ==
    (Returned /\ MLMixed) =>
        LET other == IF rec_req.variant = "main_combined"
                     THEN hybrid_predict(embedder, classifier, rec_req.hits,
                                         rec_req.probs, rec_req.fails)
                     ELSE hybrid_predict_logic(embedder, classifier, rec_req.hits,
                                               <<>>, rec_req.probs, rec_req.fails)
        IN  rec_res.Top3 = other.Top3

(***************************************************************************)
(* Claims about the risk scorer (checked under SpecRisk)                   *)
(***************************************************************************)
Triaged == risk_req.kind = "triage"

\* The level a verdict names: the override's "High Risk" names High.
RiskLevelOf(v) == IF v = "High Risk" THEN "High" ELSE v

NormalVitals(data) ==
    /\ data.Systolic_BP = <<120>>
    /\ data.Diastolic_BP = 80
    /\ data.Heart_Rate = <<72>>
    /\ data.Temperature = <<370>>

BenignTexts == { TextMildHeadache, TextFeverCough, TextEmpty }

\* C3: heart rate 150 with all other vitals ideal (age 30, BP 120/80,
\* temperature 37.0, no critical symptom text) is answered High with the
\* override marking, model loaded or not; the marking is what a verdict
\* without override never carries: the same request with heart rate 72 is
\* never answered with it, whatever the model predicts.
C3_HeartRate150IsHighOverride ==
    Triaged =>
        LET d == risk_req.data
            ideal == /\ d.Age = 30
                     /\ d.Systolic_BP = <<120>>
                     /\ d.Diastolic_BP = 80
                     /\ d.Temperature = <<370>>
                     /\ d.Symptoms \in BenignTexts
        IN  /\ (ideal /\ d.Heart_Rate = <<150>>) =>
                 (risk_res = "High Risk" /\ RiskLevelOf(risk_res) = "High")
            /\ (ideal /\ d.Heart_Rate = <<72>> /\ risk_req.env.sim <= 60) =>
                 risk_res # "High Risk"

C3_Witness ==
    /\ Triaged
    /\ risk_req.data.Age = 30
    /\ NormalVitals([risk_req.data EXCEPT !.Heart_Rate = <<72>>])
    /\ risk_req.data.Heart_Rate = <<150>>
    /\ risk_req.data.Symptoms = TextFeverCough
    /\ risk_req.env.sim = 50
    /\ triage_loaded
    /\ ~risk_req.env.enc_raises
    /\ risk_req.env.prediction = "Low"
    /\ risk_res = "High Risk"

\* The hard-override conditions as the claim lists them.
HeartRateCritical(d) ==
    d.Heart_Rate # <<>>
      /\ (d.Heart_Rate[1] > 120 \/ (0 < d.Heart_Rate[1] /\ d.Heart_Rate[1] < 40))

TemperatureCritical(d) ==
    d.Temperature # <<>> /\ d.Temperature[1] > 395

KeywordTexts ==
    { TextSevereHeadacheTitle, TextSevereHeadacheUpper, TextSevereHeadacheLower,
      TextChestPain }

OtherOverride ==
    \/ HeartRateCritical(risk_req.data)
    \/ TemperatureCritical(risk_req.data)
    \/ risk_req.data.Symptoms \in KeywordTexts
    \/ (embedder /\ risk_req.env.sim > 60)

\* C4 as stated: every hard-override condition alone forces High, systolic
\* BP < 90 being one of them.
C4_EveryOverrideForcesHigh_Original ==
    (Triaged /\ (\/ OtherOverride
                 \/ risk_req.data.Systolic_BP # <<>>
                      /\ (risk_req.data.Systolic_BP[1] > 180
                          \/ risk_req.data.Systolic_BP[1] < 90))) =>
        risk_res = "High Risk"

\* C4 (amended): every hard-override condition alone forces High, whatever
\* the other fields and whatever the model is or predicts, where a systolic
\* BP of 0 counts as not supplied (as a heart rate of 0 does): heart rate
\* > 120 or 0 < heart rate < 40, systolic BP > 180 or systolic BP < 90 and
\* not 0, temperature > 39.5, a critical keyword in the lower-cased text, or
\* the semantic emergency check firing.
C4_EveryOverrideForcesHigh ==
    (Triaged /\ (\/ OtherOverride
                 \/ risk_req.data.Systolic_BP # <<>>
                      /\ risk_req.data.Systolic_BP[1] # 0
                      /\ (risk_req.data.Systolic_BP[1] > 180
                          \/ risk_req.data.Systolic_BP[1] < 90))) =>
        risk_res = "High Risk"

C4_Witness ==
    /\ Triaged
    /\ risk_req.data.Systolic_BP = <<85>>
    /\ risk_req.data.Heart_Rate = <<72>>
    /\ risk_req.data.Temperature = <<370>>
    /\ risk_req.data.Symptoms = TextEmpty
    /\ risk_req.env.sim = 50
    /\ triage_loaded
    /\ risk_req.env.prediction = "Low"
    /\ ~risk_req.env.enc_raises
    /\ risk_res = "High Risk"

\* C5: with vitals in the normal range, a symptom text that contains
\* "severe headache" in any letter case is answered High.
C5_SevereHeadacheForcesHigh ==
    (Triaged /\ NormalVitals(risk_req.data)
       /\ risk_req.data.Symptoms \in
            { TextSevereHeadacheTitle, TextSevereHeadacheUpper,
              TextSevereHeadacheLower }) =>
        RiskLevelOf(risk_res) = "High"

C5_Witness ==
    /\ Triaged
    /\ NormalVitals(risk_req.data)
    /\ risk_req.data.Symptoms = TextSevereHeadacheUpper
    /\ risk_req.env.sim <= 60
    /\ triage_loaded
    /\ risk_req.env.prediction = "Low"
    /\ ~risk_req.env.enc_raises
    /\ risk_res = "High Risk"

\* C6: for every input and every model state (missing, loaded, raising) the
\* value predict_risk_logic returns is one of Low, Medium, High.
C6_VerdictIsOneOfThreeLevels ==
    Triaged => RiskLevelOf(risk_res) \in {"Low", "Medium", "High"}

\* C7: with no hard override and no trained model, the patient of age 70,
\* systolic 150, heart rate 105, temperature 38.2 and a 2-symptom text (the
\* request has no field for spO2) is answered Medium.
C7_WeightedFallbackIsMedium ==
    (Triaged /\ ~triage_loaded
       /\ risk_req.data.Age = 70
       /\ risk_req.data.Systolic_BP = <<150>>
       /\ risk_req.data.Heart_Rate = <<105>>
       /\ risk_req.data.Temperature = <<382>>
       /\ risk_req.data.Symptoms = TextFeverCough
       /\ ~check_emergency(embedder, risk_req.env.sim)) =>
        RiskLevelOf(risk_res) = "Medium"

(***************************************************************************)
(* Claims about the lazy singletons of model.py (checked under SpecLoad)   *)
(***************************************************************************)
\* C9: however many requests call hybrid_predict while the singletons are
\* uninitialised, the body of load_resources is executed at most once.
C9_LoadBodyRunsAtMostOnce ==
    load_count <= 1

\* C10: a call that passes load_resources because _embedder is already set
\* reads a fully built _faiss_index (the table added once) and a set
\* _department_names.
C10_FastPathReadsBuiltIndex ==
    \A t \in Threads :
        (obs[t].searched /\ obs[t].fast) =>
            (obs[t].index = 1 /\ obs[t].names)

(***************************************************************************)
(* Claims about the indexes (checked under SpecLoad and SpecIndex)         *)
(***************************************************************************)
\* C15: a search with k larger than the number of indexed entries yields
\* exactly as many results as there are entries and no padding entry, and
\* no result is emitted for a position the search did not really return.
C15_NoPaddingFromSmallIndex ==
    \A t \in Threads :
        (obs[t].searched /\ obs[t].index >= 0 /\ obs[t].names) =>
            LET ntotal == obs[t].index * NumDepts
            IN  /\ obs[t].padded = 0
                /\ obs[t].results = IF TopK < ntotal THEN TopK ELSE ntotal

Scanned == scan_req # NoRequest

Scored == batch_req.variant \in {"inference", "test_inference"}

ExtremeVitals(patient) == patient.Temperature > 1030 \/ patient.Heart_Rate > 140

\* C17: predict_risk of inference.py and of test_inference.py returns High
\* for every patient with Temperature > 103 or Heart_Rate > 140, with or
\* without the model and its encoder or columns, and without asking the
\* model.
C17_ExtremeVitalsAreHighWithoutModel ==
    (Scored /\ ExtremeVitals(batch_req.patient)) =>
        /\ ~batch_res.raised
        /\ batch_res.level = "High"
        /\ ~batch_res.consulted

\* the sample patient, scored by inference.py with a model that would have
\* said Low
C17_Witness ==
    /\ Scored
    /\ batch_req.variant = "inference"
    /\ batch_req.patient = sample_patient
    /\ batch_model
    /\ batch_aux
    /\ batch_req.env.prediction = "Low"
    /\ ~batch_req.env.raises
    /\ batch_res.level = "High"

\* C24: with the model or its encoder missing the forced-High pre-check
\* never changes the outcome: predict_risk returns what assign_risk_rule
\* alone returns, every patient with Temperature > 103 or Heart_Rate > 140
\* being rated High by the fallback rule already.
C24_PreCheckIsRedundantInFallback ==
    (Scored /\ ~(batch_model /\ batch_aux)) =>
        /\ ~batch_res.raised
        /\ batch_res.level = assign_risk_rule(batch_req.patient)
        /\ ExtremeVitals(batch_req.patient) =>
               assign_risk_rule(batch_req.patient) = "High"

\* a patient whose only finding is the heart rate, scored without a model
C24_Witness ==
    /\ Scored
    /\ ~batch_model
    /\ batch_req.patient.Heart_Rate = 145
    /\ batch_req.patient.Temperature = 370
    /\ batch_req.patient.Systolic_BP = 120
    /\ batch_req.patient.Diastolic_BP = 80
    /\ batch_res.level = "High"

Labelled ==
    batch_req.variant \in {"inference.assign_department",
                           "test_inference.assign_department",
                           "generate.department"}

\* The keyword rules in their precedence; rest: what a text with none of
\* the keywords may get.
ByKeywordPrecedence(text, dept, rest) ==
    LET s == lower(text)
        has(k) == Contains(s, k)
    IN  IF has(KwChest) \/ has(KwHeart)
        THEN dept = "Cardiology"
        ELSE IF has(KwHeadache) \/ has(KwDizziness)
             THEN dept = "Neurology"
             ELSE IF has(KwFever) \/ has(KwCough)
                  THEN dept = "General Medicine"
                  ELSE dept \in rest

Requested == pred_req.n > 0

\* C14: an empty symptom text gets an empty recommendation list and no
\* error.
C14_EmptyTextGetsEmptyList ==
    (Requested /\ embedder /\ pred_req.data.symptoms = TextEmpty) =>
        resp.Top3 = <<>>

\* C20: whenever the emergency check is true of a request's text, the
\* response has Emergency = true and empty recommendation and similar-cases
\* lists, the fusion engine is not run and no row is written; whenever it is
\* false, the engine runs exactly once and the response has Emergency =
\* false.
C20_EmergencyShortCircuit ==
    [][ (pred_req'.n = pred_req.n + 1) =>
          IF embedder /\ pred_req'.env.sim > 60
          THEN /\ resp'.Emergency = TRUE
               /\ resp'.Top3 = <<>>
               /\ resp'.Similar = <<>>
               /\ engine_calls' = engine_calls
               /\ db_log' = db_log
          ELSE /\ resp'.Emergency = FALSE
               /\ engine_calls' = engine_calls + 1 ]_vars

\* a request that was ranked and logged, then an emergency
C20_Witness ==
    /\ pred_req.n = 2
    /\ pred_req.env.sim > 60
    /\ pred_req.env.db = "ok"
    /\ resp.Emergency
    /\ engine_calls = 1
    /\ Len(db_log) = 1

\* C21: the recommendation list of a /predict response is the list the
\* fusion engine produced; the padding made for the three log columns is
\* not in it, so no response names a department "None" and the
\* engine-unavailable result stays an empty list.
C21_ResponseListIsEngineList ==
    (Requested /\ ~resp.Emergency) =>
        /\ resp.Top3 = hybrid_predict_logic(embedder, classifier,
                                            pred_req.env.hits, pred_req.env.chits,
                                            pred_req.env.probs, pred_req.env.fails).Top3
        /\ \A i \in 1..Len(resp.Top3) : resp.Top3[i].Department # "None"

Reported == analytics_res.made

\* C22: after any sequence of /predict requests /analytics reports as
\* Emergency Cases the number of them answered with Emergency = true and
\* as Total Predictions the number of requests served.
C22_AnalyticsCountsRequests ==
    Reported =>
        LET served == analytics_res.served
        IN  /\ analytics_res.report.Emergency_Cases =
                 Cardinality({ i \in 1..Len(served) : served[i] })
            /\ analytics_res.report.Total_Predictions = Len(served)

(***************************************************************************)
(* Claims about /ocr and /chat (checked under SpecHttp)                    *)
(***************************************************************************)
Unsupported(name) ==
    LET n == lower(name)
    IN  ~EndsWith(n, ExtPdf) /\ \A ext \in ImageExts : ~EndsWith(n, ext)

\* C26: an HTTP error status raised inside a handler reaches the client
\* unchanged: /ocr with a file that is neither PDF nor PNG/JPG/JPEG is
\* answered with 400, /chat with an empty AI reply with 502, neither with a
\* generic 500.
C26_RaisedStatusReachesClient ==
    /\ (http_req.variant = "ocr" /\ client /\ Unsupported(http_req.filename))
           => http_res.status = 400
    /\ (http_req.variant = "chat" /\ client /\ http_res.status # 422
        /\ http_req.reply \in {"", "None"})
           => http_res.status = 502

====
